---------------------------- MODULE Spec2Model ----------------------------
(***************************************************************************)
(* Client side of the crypto-news agent: the streaming decoder             *)
(* askQuestionStream (apis/cryptoNewsAPI) and the ChatPage component that  *)
(* drives it (handleSendMessage, handleStreamingResponse and its three     *)
(* handlers, handleStopGeneration).                                        *)
(*                                                                         *)
(* Text is modelled as a sequence of symbols.  A symbol is a record        *)
(* [t, k, v]: the line terminator, the two line prefixes the decoder tests *)
(* with startsWith, an event name, the braces of a JSON object, one        *)
(* key/value member of that object, white space, or a fragment that is not *)
(* JSON.  A reader.read() result is a run of symbols of the response body, *)
(* cut at any symbol boundary.  Strings shown to the user and error        *)
(* messages are sequences of words.                                        *)
(*                                                                         *)
(* One action is one turn of the event loop: a user event, or the          *)
(* continuation of an await in askQuestionStream together with every       *)
(* handler it calls before it awaits again.  State setters take effect     *)
(* within the action.  The catch of handleStreamingResponse (ChatPage.tsx  *)
(* 116-142) has no action: askQuestionStream catches everything it throws, *)
(* so the awaited promise never rejects.                                   *)
(***************************************************************************)
EXTENDS Integers, Sequences, FiniteSets, TLC

----------------------------------------------------------------------------
(* Bounds *)

MaxRequests == 2      \* questions sent during one run of the page
MaxBlocks == 2        \* event blocks in one response body, any kind of block

----------------------------------------------------------------------------
(* Symbols of the wire text *)

Sym(t, k, v) == [t |-> t, k |-> k, v |-> v]

NL == Sym("nl", "", <<>>)
EventPrefix == Sym("event: ", "", <<>>)
DataPrefix == Sym("data: ", "", <<>>)
WS == Sym("ws", "", <<>>)
LBrace == Sym("{", "", <<>>)
RBrace == Sym("}", "", <<>>)
Garbage == Sym("garbage", "", <<>>)
Name(n) == Sym("name", n, <<>>)
Member(k, v) == Sym("member", k, v)

\* the value of a member that the parsed object does not have
Undefined == <<"undefined">>

\* words of the texts the page shows
CancelNotice == "Generation cancelled by user."
ErrorNotice == "Sorry, I encountered an error while processing your question. Please try again."
Para == "\n\n"

----------------------------------------------------------------------------
(* String helpers used by the decoder *)

HasNL(s) == \E i \in 1..Len(s) : s[i] = NL

FirstNL(s) == CHOOSE i \in 1..Len(s) : s[i] = NL /\ \A j \in 1..(i-1) : s[j] # NL

RECURSIVE Split(_)
\* chunk.split('\n')
Split(s) ==
    IF ~HasNL(s) THEN <<s>>
    ELSE LET i == FirstNL(s)
         IN <<SubSeq(s, 1, i - 1)>> \o Split(SubSeq(s, i + 1, Len(s)))

StartsWith(line, prefix) == Len(line) >= 1 /\ line[1] = prefix

Slice(line) == SubSeq(line, 2, Len(line))

RECURSIVE TrimLeft(_, _)
TrimLeft(s, ws) == IF s # <<>> /\ s[1] = ws THEN TrimLeft(Tail(s), ws) ELSE s

RECURSIVE TrimRight(_, _)
TrimRight(s, ws) ==
    IF s # <<>> /\ s[Len(s)] = ws
    THEN TrimRight(SubSeq(s, 1, Len(s) - 1), ws)
    ELSE s

\* String.prototype.trim on wire text
Trim(s) == TrimRight(TrimLeft(s, WS), WS)

\* String.prototype.trim on the words typed into the input
\* a ChatInput that submits the text as typed
TrimInput_AsTyped(s) == s

TrimInput(s) == TrimRight(TrimLeft(s, " "), " ")

\* JSON.parse succeeds on an object: braces around members
IsJSON(d) ==
    /\ Len(d) >= 2
    /\ d[1] = LBrace
    /\ d[Len(d)] = RBrace
    /\ \A i \in 2..(Len(d) - 1) : d[i].t = "member"

\* data.<key> of the parsed object
Get(d, key) ==
    LET idx == {i \in 2..(Len(d) - 1) : d[i].k = key}
    IN IF idx = {} THEN Undefined
       ELSE d[CHOOSE i \in idx : \A j \in idx : j <= i].v

\* JavaScript truthiness of a member value (a string or an array)
Truthy(key, val) ==
    /\ val # Undefined
    /\ (key = "sources" \/ val # <<>>)

----------------------------------------------------------------------------
(* Handler calls *)

Call(h, a, b) == [h |-> h, a |-> a, b |-> b]

OnChunk(c) == Call("onChunk", c, <<>>)
OnComplete(sources, sid) == Call("onComplete", sources, sid)
OnError(msg) == Call("onError", msg, <<>>)

IsTerminal(c) == c.h \in {"onComplete", "onError"}

\* a decoder that reports a data line it cannot parse through onError
Dispatch_ReportsParseError(currentEvent, currentData) ==
    IF currentData = <<>> \/ currentEvent = <<>> THEN <<>>
    ELSE IF ~IsJSON(currentData) THEN <<OnError(<<"Unexpected token">>)>>
    ELSE IF currentEvent = <<Name("answer_chunk")>>
              /\ Truthy("chunk", Get(currentData, "chunk"))
         THEN <<OnChunk(Get(currentData, "chunk"))>>
    ELSE IF currentEvent = <<Name("answer_complete")>>
              /\ Truthy("sources", Get(currentData, "sources"))
         THEN <<OnComplete(Get(currentData, "sources"), Get(currentData, "session_id"))>>
    ELSE IF currentEvent = <<Name("error")>>
         THEN <<OnError(IF Truthy("error", Get(currentData, "error"))
                        THEN Get(currentData, "error")
                        ELSE <<"Unknown error">>)>>
    ELSE <<>>

\* the body of the try block for one data line
Dispatch(currentEvent, currentData) ==
    IF currentData = <<>> \/ currentEvent = <<>> THEN <<>>
    ELSE IF ~IsJSON(currentData) THEN <<>>
    ELSE IF currentEvent = <<Name("answer_chunk")>>
              /\ Truthy("chunk", Get(currentData, "chunk"))
         THEN <<OnChunk(Get(currentData, "chunk"))>>
    ELSE IF currentEvent = <<Name("answer_complete")>>
              /\ Truthy("sources", Get(currentData, "sources"))
         THEN <<OnComplete(Get(currentData, "sources"), Get(currentData, "session_id"))>>
    ELSE IF currentEvent = <<Name("error")>>
         THEN <<OnError(IF Truthy("error", Get(currentData, "error"))
                        THEN Get(currentData, "error")
                        ELSE <<"Unknown error">>)>>
    ELSE <<>>

RECURSIVE ProcessLines(_, _, _)
\* the for loop over the lines of one read
ProcessLines(lines, i, currentEvent) ==
    IF i > Len(lines) THEN <<>>
    ELSE LET line == lines[i]
         IN IF StartsWith(line, EventPrefix)
            THEN ProcessLines(lines, i + 1, Trim(Slice(line)))
            ELSE IF StartsWith(line, DataPrefix)
            THEN Dispatch(currentEvent, Trim(Slice(line)))
                     \o ProcessLines(lines, i + 1, currentEvent)
            ELSE ProcessLines(lines, i + 1, currentEvent)

\* the handler calls made for one reader.read() result
ProcessRead(chunk) == ProcessLines(Split(chunk), 1, <<>>)

----------------------------------------------------------------------------
(* Response bodies: what the server may put on the wire *)

ChunkBlock(c) ==
    <<EventPrefix, Name("answer_chunk"), NL,
      DataPrefix, LBrace, Member("chunk", <<c>>), RBrace, NL, NL>>

CompleteBlock ==
    <<EventPrefix, Name("answer_complete"), NL,
      DataPrefix, LBrace, Member("sources", <<"S">>),
                          Member("session_id", <<"server-sid">>), RBrace, NL, NL>>

ErrorBlock(msg) ==
    <<EventPrefix, Name("error"), NL,
      DataPrefix, LBrace, Member("error", msg), RBrace, NL, NL>>

\* an answer_chunk event whose data line is not JSON
BadBlock ==
    <<EventPrefix, Name("answer_chunk"), NL,
      DataPrefix, LBrace, Garbage, NL, NL>>

\* a block with a data line and no event-type line
DataOnlyBlock(c) ==
    <<DataPrefix, LBrace, Member("chunk", <<c>>), RBrace, NL, NL>>

BlockIds ==
    {"chunk_a", "chunk_b", "complete", "error_boom", "error_aborted",
     "bad", "data_only"}

EncodeBlock(b) ==
    CASE b = "chunk_a" -> ChunkBlock("a")
      [] b = "chunk_b" -> ChunkBlock("b")
      [] b = "complete" -> CompleteBlock
      [] b = "error_boom" -> ErrorBlock(<<"boom">>)
      [] b = "error_aborted" -> ErrorBlock(<<"upstream", "aborted">>)
      [] b = "bad" -> BadBlock
      [] b = "data_only" -> DataOnlyBlock("b")

RECURSIVE Encode(_)
Encode(bs) == IF bs = <<>> THEN <<>> ELSE EncodeBlock(Head(bs)) \o Encode(Tail(bs))

\* every body of at most MaxBlocks blocks
Bodies == UNION {[1..n -> BlockIds] : n \in 0..MaxBlocks}

\* bodies of the documented protocol, one event each: a chunk, the completion,
\* an error; and a body with no event
AnswerBodies == {<<"chunk_a">>, <<"complete">>, <<"error_aborted">>, <<>>}

\* messages of the errors thrown inside askQuestionStream
HttpErrorMessage == <<"HTTP error! status: 500">>
NoBodyMessage == <<"No response body">>
NetworkErrorMessage == <<"Failed to fetch">>
CancelledMessage == <<"Request", "cancelled">>

FailureMessages == {HttpErrorMessage, NoBodyMessage, NetworkErrorMessage}

\* what the user may type
Inputs == {<<"q">>, <<" ", "q", " ">>, <<" ">>, <<>>}

\* a question that quotes the error notice of an earlier answer
QuotedNotice == "Why 'Sorry, I encountered an error'?"
QuotingInputs == {<<"q">>, <<QuotedNotice>>}

\* crypto.randomUUID()
NewSessionId == "uuid"

----------------------------------------------------------------------------
(* State *)

VARIABLES
    messages,         \* ChatPage: the conversation
    isStreaming,      \* ChatPage: a request is being answered
    abortController,  \* ChatPage: the request Stop aborts, or NoController
    sessionId,        \* ChatPage: set when the page mounts
    nreq,             \* number of questions sent so far
    request,          \* request[r]: the AskRequest posted for r
    pc,               \* pc[r]: where askQuestionStream of r is suspended
    body,             \* body[r]: the event blocks of r's response body, while r reads it
    pos,              \* pos[r]: symbols of the body already read
    aborted,          \* aborted[r]: r's AbortSignal has fired
    calls,            \* calls[r]: the handler calls made for r, in order
    stopAt,           \* stopAt[r]: Len(calls[r]) when Stop aborted r, else -1
    outcome           \* outcome[r]: how askQuestionStream of r ended

vars == <<messages, isStreaming, abortController, sessionId, nreq, request,
          pc, body, pos, aborted, calls, stopAt, outcome>>

Requests == 1..MaxRequests

NoController == 0

\* crypto.randomUUID() of the user message and of the placeholder of request r
UserId(r) == 2 * r - 1
TempId(r) == 2 * r

----------------------------------------------------------------------------
(* ChatPage *)

Substrings(w) ==
    CASE w = ErrorNotice -> {"Sorry, I encountered an error"}
      [] w = CancelNotice -> {"Generation cancelled by user", "cancelled"}
      [] w = QuotedNotice -> {"Sorry, I encountered an error"}
      [] w = "cancelled" -> {"cancelled"}
      [] w = "aborted" -> {"aborted"}
      [] OTHER -> {}

\* String.prototype.includes
Includes(text, sub) == \E i \in 1..Len(text) : sub \in Substrings(text[i])

Page(m, st, ac) == [messages |-> m, isStreaming |-> st, abortController |-> ac]

\* the chat_history handleStreamingResponse builds from the rendered messages
ChatHistory(msgs) ==
    LET keep(msg) == ~(Includes(msg.message, "Sorry, I encountered an error")
                       \/ Includes(msg.message, "Generation cancelled by user"))
        turn(msg) == [role |-> IF msg.isUser THEN "user" ELSE "assistant",
                      content |-> msg.message,
                      timestamp |-> msg.timestamp]
    IN [i \in 1..Len(SelectSeq(msgs, keep)) |-> turn(SelectSeq(msgs, keep)[i])]

\* the onChunk handler of the request whose placeholder is id
HandleChunk(P, id, chunk) ==
    LET upd(msg) == IF msg.id = id
                    THEN [msg EXCEPT !.message = msg.message \o chunk]
                    ELSE msg
    IN [P EXCEPT !.messages = [i \in 1..Len(P.messages) |-> upd(P.messages[i])]]

\* an onComplete handler that forgets setAbortController(null)
HandleComplete_KeepsController(P, id, sources) ==
    LET upd(msg) == IF msg.id = id
                    THEN [msg EXCEPT !.sources = sources, !.isStreaming = FALSE]
                    ELSE msg
    IN Page([i \in 1..Len(P.messages) |-> upd(P.messages[i])], FALSE, P.abortController)

\* the onComplete handler
HandleComplete(P, id, sources) ==
    LET upd(msg) == IF msg.id = id
                    THEN [msg EXCEPT !.sources = sources, !.isStreaming = FALSE]
                    ELSE msg
    IN Page([i \in 1..Len(P.messages) |-> upd(P.messages[i])], FALSE, NoController)

IsCancellation(error) ==
    error = CancelledMessage \/ Includes(error, "cancelled") \/ Includes(error, "aborted")

\* an onError handler that forgets setIsStreaming(false)
HandleError_KeepsStreaming(P, id, error) ==
    LET notice == IF IsCancellation(error) THEN <<CancelNotice>> ELSE <<ErrorNotice>>
        upd(msg) == IF msg.id = id
                    THEN [msg EXCEPT !.message = notice, !.isStreaming = FALSE]
                    ELSE msg
    IN Page([i \in 1..Len(P.messages) |-> upd(P.messages[i])],
            P.isStreaming, NoController)

\* an onError handler that removes the placeholder of the failed request
HandleError_DropsPlaceholder(P, id, error) ==
    LET keep(msg) == msg.id # id
    IN Page(SelectSeq(P.messages, keep), FALSE, NoController)

\* the onError handler
HandleError(P, id, error) ==
    LET notice == IF IsCancellation(error) THEN <<CancelNotice>> ELSE <<ErrorNotice>>
        upd(msg) == IF msg.id = id
                    THEN [msg EXCEPT !.message = notice, !.isStreaming = FALSE]
                    ELSE msg
    IN Page([i \in 1..Len(P.messages) |-> upd(P.messages[i])], FALSE, NoController)

ApplyCall(P, id, c) ==
    CASE c.h = "onChunk" -> HandleChunk(P, id, c.a)
      [] c.h = "onComplete" -> HandleComplete(P, id, c.a)
      [] c.h = "onError" -> HandleError(P, id, c.a)

RECURSIVE ApplyCalls(_, _, _)
ApplyCalls(P, id, cs) ==
    IF cs = <<>> THEN P ELSE ApplyCalls(ApplyCall(P, id, Head(cs)), id, Tail(cs))

\* askQuestionStream of r makes the calls cs, one after the other
Invoke(r, cs) ==
    LET P == ApplyCalls(Page(messages, isStreaming, abortController), TempId(r), cs)
    IN /\ messages' = P.messages
       /\ isStreaming' = P.isStreaming
       /\ abortController' = P.abortController
       /\ calls' = [calls EXCEPT ![r] = @ \o cs]

----------------------------------------------------------------------------
(* Initial state: the page is rendered, its mount effect has not yet run *)

Init ==
    /\ messages = <<>>
    /\ isStreaming = FALSE
    /\ abortController = NoController
    /\ sessionId = ""
    /\ nreq = 0
    /\ request = [r \in Requests |-> <<>>]
    /\ pc = [r \in Requests |-> "unsent"]
    /\ body = [r \in Requests |-> <<>>]
    /\ pos = [r \in Requests |-> 0]
    /\ aborted = [r \in Requests |-> FALSE]
    /\ calls = [r \in Requests |-> <<>>]
    /\ stopAt = [r \in Requests |-> -1]
    /\ outcome = [r \in Requests |-> "none"]

----------------------------------------------------------------------------
(* Actions *)

\* the mount effect of ChatPage
Mount ==
    /\ sessionId = ""
    /\ sessionId' = NewSessionId
    /\ UNCHANGED <<messages, isStreaming, abortController, nreq, request,
                   pc, body, pos, aborted, calls, stopAt, outcome>>

\* a handler that takes the chat history from the list it has just extended
ClosureMessages_AfterAppend(msgs, userMessage, tempMessage) ==
    msgs \o <<userMessage, tempMessage>>

\* the messages handleStreamingResponse sees: those of the render that
\* created the handler, without the two messages queued by this submit
ClosureMessages(msgs, userMessage, tempMessage) == msgs

\* a request that leaves the session id out
RequestOf_NoSession(question, sid, chatHistory) ==
    [question |-> question, session_id |-> "", chat_history |-> chatHistory]

\* the StreamingQuestionRequest handleStreamingResponse builds
RequestOf(question, sid, chatHistory) ==
    [question |-> question, session_id |-> sid, chat_history |-> chatHistory]

\* ChatInput.handleSubmit, handleSendMessage and handleStreamingResponse up
\* to the call of fetch; input events are handled after the mount effect
HandleSubmit(input) ==
    /\ sessionId # ""
    /\ nreq < MaxRequests
    /\ IF TrimInput(input) # <<>> /\ ~isStreaming
       THEN LET r == nreq + 1
                question == TrimInput(input)
                userMessage == [id |-> UserId(r), message |-> question,
                                isUser |-> TRUE, timestamp |-> UserId(r),
                                sources |-> Undefined, isStreaming |-> FALSE]
                tempMessage == [id |-> TempId(r), message |-> <<>>,
                                isUser |-> FALSE, timestamp |-> TempId(r),
                                sources |-> Undefined, isStreaming |-> TRUE]
            IN /\ messages' = messages \o <<userMessage, tempMessage>>
               /\ isStreaming' = TRUE
               /\ abortController' = r
               /\ nreq' = r
               /\ request' = [request EXCEPT ![r] =
                                 <<RequestOf(question, sessionId,
                                     ChatHistory(ClosureMessages(messages,
                                         userMessage, tempMessage)))>>]
               /\ pc' = [pc EXCEPT ![r] = "fetch"]
               /\ UNCHANGED <<sessionId, body, pos, aborted, calls, stopAt, outcome>>
       ELSE UNCHANGED vars

\* askQuestionStream of r returns; its response and reader are dropped
Return(r, how) ==
    /\ pc' = [pc EXCEPT ![r] = "returned"]
    /\ outcome' = [outcome EXCEPT ![r] = how]
    /\ body' = [body EXCEPT ![r] = <<>>]
    /\ pos' = [pos EXCEPT ![r] = 0]

\* fetch resolves with an OK response that has a body
FetchOk(r, bs) ==
    /\ pc[r] = "fetch"
    /\ ~aborted[r]
    /\ pc' = [pc EXCEPT ![r] = "read"]
    /\ body' = [body EXCEPT ![r] = bs]
    /\ UNCHANGED <<messages, isStreaming, abortController, sessionId, nreq,
                   request, pos, aborted, calls, stopAt, outcome>>

\* fetch rejects, the response is not OK, or it has no body
FetchFail(r, msg) ==
    /\ pc[r] = "fetch"
    /\ ~aborted[r]
    /\ Invoke(r, <<OnError(msg)>>)
    /\ Return(r, "threw")
    /\ UNCHANGED <<sessionId, nreq, request, aborted, stopAt>>

\* a fetch that was not given the signal: reads go on after abort()
CanRead_IgnoresSignal(r) == pos[r] < Len(Encode(body[r]))

\* the body still delivers data: it has unread text and was not aborted
CanRead(r) == ~aborted[r] /\ pos[r] < Len(Encode(body[r]))

\* reader.read() resolves with the next n symbols; the for loop runs
ReadData(r, n) ==
    /\ pc[r] = "read"
    /\ CanRead(r)
    /\ n \in 1..(Len(Encode(body[r])) - pos[r])
    /\ Invoke(r, ProcessRead(SubSeq(Encode(body[r]), pos[r] + 1, pos[r] + n)))
    /\ pos' = [pos EXCEPT ![r] = @ + n]
    /\ UNCHANGED <<sessionId, nreq, request, pc, body, aborted, stopAt, outcome>>

\* reader.read() resolves with done: the loop breaks and the function returns.
\* A body that had closed before abort() stays closed, so done may also follow
\* an abort once everything was read.
ReadDone(r) ==
    /\ pc[r] = "read"
    /\ pos[r] = Len(Encode(body[r]))
    /\ Return(r, "done")
    /\ UNCHANGED <<messages, isStreaming, abortController, sessionId, nreq,
                   request, aborted, calls, stopAt>>

\* reader.read() rejects because the connection failed
ReadFail(r) ==
    /\ pc[r] = "read"
    /\ ~aborted[r]
    /\ Invoke(r, <<OnError(NetworkErrorMessage)>>)
    /\ Return(r, "threw")
    /\ UNCHANGED <<sessionId, nreq, request, aborted, stopAt>>

\* the pending fetch or read rejects with an AbortError: abort() errors the
\* body, unread data included
CatchAbort(r) ==
    /\ pc[r] \in {"fetch", "read"}
    /\ aborted[r]
    /\ Invoke(r, <<OnError(CancelledMessage)>>)
    /\ Return(r, "aborted")
    /\ UNCHANGED <<sessionId, nreq, request, aborted, stopAt>>

HandleStopGeneration ==
    IF abortController # NoController
    THEN LET upd(msg) == IF msg.isStreaming
                         THEN [msg EXCEPT !.message = msg.message \o <<Para, CancelNotice>>,
                                          !.isStreaming = FALSE]
                         ELSE msg
         IN /\ aborted' = [aborted EXCEPT ![abortController] = TRUE]
            /\ stopAt' = [stopAt EXCEPT ![abortController] =
                             IF @ = -1 THEN Len(calls[abortController]) ELSE @]
            /\ isStreaming' = FALSE
            /\ abortController' = NoController
            /\ messages' = [i \in 1..Len(messages) |-> upd(messages[i])]
            /\ UNCHANGED <<sessionId, nreq, request, pc, body, pos, calls, outcome>>
    ELSE UNCHANGED vars

\* several questions, answered with blocks of the documented protocol
Next ==
    \/ Mount
    \/ \E input \in Inputs : HandleSubmit(input)
    \/ \E r \in Requests, bs \in AnswerBodies : FetchOk(r, bs)
    \/ \E r \in Requests, msg \in FailureMessages : FetchFail(r, msg)
    \/ \E r \in Requests : \E n \in 1..Len(Encode(body[r])) : ReadData(r, n)
    \/ \E r \in Requests : ReadDone(r)
    \/ \E r \in Requests : ReadFail(r)
    \/ \E r \in Requests : CatchAbort(r)
    \/ HandleStopGeneration

Spec == Init /\ [][Next]_vars

\* one question, answered with any body
NextDecoder ==
    \/ Mount
    \/ \E input \in Inputs : nreq = 0 /\ HandleSubmit(input)
    \/ \E bs \in Bodies : FetchOk(1, bs)
    \/ \E msg \in FailureMessages : FetchFail(1, msg)
    \/ \E n \in 1..Len(Encode(body[1])) : ReadData(1, n)
    \/ ReadDone(1)
    \/ ReadFail(1)
    \/ CatchAbort(1)
    \/ HandleStopGeneration

SpecDecoder == Init /\ [][NextDecoder]_vars

\* several questions, some of which quote a notice of the page
NextQuoting ==
    \/ Mount
    \/ \E input \in QuotingInputs : HandleSubmit(input)
    \/ \E r \in Requests, bs \in AnswerBodies : FetchOk(r, bs)
    \/ \E r \in Requests, msg \in FailureMessages : FetchFail(r, msg)
    \/ \E r \in Requests : \E n \in 1..Len(Encode(body[r])) : ReadData(r, n)
    \/ \E r \in Requests : ReadDone(r)
    \/ \E r \in Requests : ReadFail(r)
    \/ \E r \in Requests : CatchAbort(r)
    \/ HandleStopGeneration

SpecQuoting == Init /\ [][NextQuoting]_vars

----------------------------------------------------------------------------
(* Vocabulary of the properties *)

\* the placeholder message of request r
MessageOf(r) == messages[CHOOSE i \in 1..Len(messages) : messages[i].id = TempId(r)]

Sent(r) == pc[r] # "unsent"

\* r has read its whole body and has not yet seen done
AllRead(r) == pc[r] = "read" /\ pos[r] = Len(Encode(body[r]))

\* the handler call the protocol assigns to one block
EventCall(b) ==
    CASE b = "chunk_a" -> <<OnChunk(<<"a">>)>>
      [] b = "chunk_b" -> <<OnChunk(<<"b">>)>>
      [] b = "complete" -> <<OnComplete(<<"S">>, <<"server-sid">>)>>
      [] b = "error_boom" -> <<OnError(<<"boom">>)>>
      [] b = "error_aborted" -> <<OnError(<<"upstream", "aborted">>)>>
      [] OTHER -> <<>>

RECURSIVE EventCalls(_)
EventCalls(bs) == IF bs = <<>> THEN <<>> ELSE EventCall(Head(bs)) \o EventCalls(Tail(bs))

RECURSIVE Payloads(_)
\* the chunk payloads of a body, concatenated
Payloads(bs) ==
    IF bs = <<>> THEN <<>>
    ELSE (CASE Head(bs) = "chunk_a" -> <<"a">>
            [] Head(bs) = "chunk_b" -> <<"b">>
            [] OTHER -> <<>>) \o Payloads(Tail(bs))

\* chunk events followed by one answer_complete
IsAnswer(bs) ==
    /\ bs # <<>>
    /\ bs[Len(bs)] = "complete"
    /\ \A i \in 1..(Len(bs) - 1) : bs[i] \in {"chunk_a", "chunk_b"}

RECURSIVE IsSubseq(_, _)
IsSubseq(s, t) ==
    IF s = <<>> THEN TRUE
    ELSE IF t = <<>> THEN FALSE
    ELSE IF Head(s) = Head(t) THEN IsSubseq(Tail(s), Tail(t))
    ELSE IsSubseq(s, Tail(t))

HasCall(r, h) == \E i \in 1..Len(calls[r]) : calls[r][i].h = h

\* symbols of the body before block j
RECURSIVE Offset(_, _)
Offset(bs, j) == IF j <= 1 THEN 0 ELSE Len(EncodeBlock(bs[j - 1])) + Offset(bs, j - 1)

\* p is a boundary between two blocks of the body (or its start or end)
Aligned(bs, p) == \E j \in 1..(Len(bs) + 1) : Offset(bs, j) = p

\* the blocks of the body that lie between the boundaries p and q
Between(bs, p, q) ==
    LET first == CHOOSE j \in 1..(Len(bs) + 1) : Offset(bs, j) = p
        last == CHOOSE j \in 1..(Len(bs) + 1) : Offset(bs, j) = q
    IN SubSeq(bs, first, last - 1)

IsPayload(w) == w \in {"a", "b"}

\* the latest request has completed, failed or been stopped (or none was sent)
LatestSettled ==
    \/ nreq = 0
    \/ stopAt[nreq] # -1
    \/ HasCall(nreq, "onComplete")
    \/ HasCall(nreq, "onError")

----------------------------------------------------------------------------
(* Properties *)

\* C1: a body answer_chunk(c1) ... answer_chunk(cn), answer_complete(S, sid)
\* makes the decoder call onChunk(c1), ..., onChunk(cn) in that order and then
\* onComplete(S, sid) once, and nothing else.
C1_EventOrder ==
    \A r \in Requests :
        (AllRead(r) /\ IsAnswer(body[r])) => calls[r] = EventCalls(body[r])

\* C2: the handler calls depend only on the concatenated text of the body, not
\* on how it is cut into reads: they are the calls of a single read of the
\* whole text.
C2_SplitInvariant ==
    \A r \in Requests :
        AllRead(r) => calls[r] = ProcessRead(Encode(body[r]))

\* C3: when a request completes, the text of its placeholder message is the
\* concatenation, in order, of the chunk payloads the server sent.
C3_MessageIsConcatenation ==
    \A r \in Requests :
        (pc[r] = "read" /\ IsAnswer(body[r]) /\ HasCall(r, "onComplete"))
            => MessageOf(r).message = Payloads(body[r])

\* C4: a request gets at most one terminal handler call (onComplete or
\* onError), and no handler call follows it.
C4_OneTerminalLast ==
    \A r \in Requests :
        \A i \in 1..Len(calls[r]) : IsTerminal(calls[r][i]) => i = Len(calls[r])

\* C5: once askQuestionStream has returned (the body ended, failed or was
\* aborted) the request is settled: its placeholder is no longer streaming, and
\* the page is not streaming on its behalf.
C5_SettledOnReturn ==
    \A r \in Requests :
        pc[r] = "returned" =>
            /\ ~MessageOf(r).isStreaming
            /\ (r = nreq => ~isStreaming)

\* the handler calls made for r after Stop aborted it
AfterStop(r) == SubSeq(calls[r], stopAt[r] + 1, Len(calls[r]))

\* the number of chunks delivered for r before Stop aborted it
ChunksBeforeStop(r) ==
    Cardinality({i \in 1..stopAt[r] : calls[r][i].h = "onChunk"})

C7_StopIdempotent ==
    [][(LatestSettled /\ HandleStopGeneration)
          => UNCHANGED <<messages, isStreaming, abortController>>]_vars

\* Stop can be pressed again on a request that was stopped, and on one that
\* completed
C7_Witness ==
    /\ nreq = 2
    /\ stopAt[1] # -1
    /\ outcome[1] = "aborted"
    /\ HasCall(2, "onComplete")
    /\ abortController = NoController

\* C8: a request the user cancelled is never shown as an error, and a request
\* that failed (error event, HTTP error, network error) is never shown as
\* 'Generation cancelled by user.'.
C8_CancelAndFailureDistinct ==
    \A r \in Requests :
        Sent(r) =>
            /\ stopAt[r] # -1 => ~Includes(MessageOf(r).message, "Sorry, I encountered an error")
            /\ (~aborted[r] /\ HasCall(r, "onError"))
                   => ~Includes(MessageOf(r).message, "Generation cancelled by user")

C10_OneBlockPerCall ==
    \A r \in Requests :
        pc[r] = "read" => IsSubseq(calls[r], EventCalls(body[r]))

\* the ids of a list of messages, in order
Ids(msgs) == [i \in 1..Len(msgs) |-> msgs[i].id]

\* the timestamps of the turns of a chat history, in order
Timestamps(history) == [i \in 1..Len(history) |-> history[i].timestamp]

IsPrefix(s, t) == Len(s) <= Len(t) /\ SubSeq(t, 1, Len(s)) = s

\* the chat history request r carried
HistoryOf(r) == request[r][1].chat_history

\* C11: the conversation is append-only and in arrival order.  Every step
\* leaves the list of message ids an extension of what it was; each user
\* message is immediately followed by the placeholder of its own request; and
\* the turns of every chat history sent are in the order of the messages.
C11_AppendOnly ==
    [][/\ IsPrefix(Ids(messages), Ids(messages'))
       /\ \A r \in 1..nreq' :
             /\ messages'[2 * r - 1].id = UserId(r)
             /\ messages'[2 * r - 1].isUser
             /\ messages'[2 * r].id = TempId(r)
             /\ ~messages'[2 * r].isUser
             /\ IsSubseq(Timestamps(HistoryOf(r)'), Ids(messages'))]_vars

\* a second question was sent with the first exchange as its history, after
\* the first answer had been completed
C11_Witness ==
    /\ nreq = 2
    /\ Len(messages) = 4
    /\ HasCall(1, "onComplete")
    /\ Timestamps(HistoryOf(2)) = <<UserId(1), TempId(1)>>

\* the text is empty or made of blanks only
IsBlank(text) == \A i \in 1..Len(text) : text[i] = " "

\* text is what is left of input once the blanks around it are removed
IsTrimmed(text, input) ==
    /\ text # <<>>
    /\ text[1] # " "
    /\ text[Len(text)] # " "
    /\ \E i \in 1..Len(input) :
          /\ SubSeq(input, i, i + Len(text) - 1) = text
          /\ IsBlank(SubSeq(input, 1, i - 1))
          /\ IsBlank(SubSeq(input, i + Len(text), Len(input)))

\* C12: every request carries a non-empty question.  A submit whose input is
\* empty or blank sends no request and adds no message; any other submit that
\* goes through sends the input without the blanks around it, and shows it.
C12_NonEmptyQuestion ==
    [][\A input \in Inputs :
          HandleSubmit(input) =>
              IF IsBlank(input)
              THEN UNCHANGED <<messages, nreq, request, pc, isStreaming>>
              ELSE nreq' # nreq =>
                      /\ IsTrimmed(request'[nreq'][1].question, input)
                      /\ messages'[Len(messages') - 1].message =
                             request'[nreq'][1].question]_vars

\* a question was sent, trimmed of the blanks around it
C12_Witness ==
    /\ nreq >= 1
    /\ request[1][1].question = <<"q">>
    /\ messages[1].message = <<"q">>

\* the request a message belongs to
RequestOfMessage(msg) == (msg.id + 1) \div 2

\* r ended in an error or was cancelled by the user
EndedInErrorOrCancelled(r) == stopAt[r] # -1 \/ HasCall(r, "onError")

Turn(msg) == [role |-> IF msg.isUser THEN "user" ELSE "assistant",
              content |-> msg.message,
              timestamp |-> msg.timestamp]

\* the turns of the user's questions and of the answers whose request neither
\* failed nor was cancelled
TurnsWithoutNotices(msgs) ==
    LET keep(msg) == msg.isUser \/ ~EndedInErrorOrCancelled(RequestOfMessage(msg))
    IN [i \in 1..Len(SelectSeq(msgs, keep)) |-> Turn(SelectSeq(msgs, keep)[i])]

\* C13 as stated: the chat history of a new request leaves out exactly the
\* earlier answers whose request ended in an error or was cancelled; every
\* user question and every other answer is in it, with its role, content and
\* timestamp.
C13_HistoryWithoutNotices ==
    [][nreq' # nreq =>
          request'[nreq'][1].chat_history = TurnsWithoutNotices(messages)]_vars

\* the text of the chunks in a sequence of handler calls
RECURSIVE ChunkText(_)
ChunkText(cs) ==
    IF cs = <<>> THEN <<>>
    ELSE (IF Head(cs).h = "onChunk" THEN Head(cs).a ELSE <<>>) \o ChunkText(Tail(cs))

\* the text request r had received when Stop aborted it
TextBeforeStop(r) == ChunkText(SubSeq(calls[r], 1, stopAt[r]))

\* C14 as stated: Stop keeps the partial answer.  From handleStopGeneration
\* on, through every callback that follows, the placeholder of the stopped
\* request starts with the text received before the stop, carries the
\* cancellation notice and is not streaming.
C14_StopKeepsPartialAnswer ==
    \A r \in Requests :
        stopAt[r] # -1 =>
            /\ IsPrefix(TextBeforeStop(r), MessageOf(r).message)
            /\ Includes(MessageOf(r).message, "Generation cancelled by user")
            /\ ~MessageOf(r).isStreaming

\* r has been started, no terminal handler has been called for it and
\* askQuestionStream has not returned
Pending(r) ==
    /\ pc[r] \in {"fetch", "read"}
    /\ ~HasCall(r, "onComplete")
    /\ ~HasCall(r, "onError")

\* C15 as stated: at most one request is pending at any time, also after
\* Stop: a new question is sent only when no earlier request is pending.
C15_OnePending ==
    Cardinality({r \in Requests : Pending(r)}) <= 1

\* r has been started and has not completed, failed or been stopped
Unfinished(r) ==
    /\ Sent(r)
    /\ stopAt[r] = -1
    /\ ~HasCall(r, "onComplete")
    /\ ~HasCall(r, "onError")

\* C16 as stated: while a request is started and has not completed, failed
\* or been stopped, the page is streaming, abortController is the request's
\* own controller and its placeholder is streaming: no callback of an earlier
\* request takes these away.
C16_OwnStreamingState ==
    \A r \in Requests :
        Unfinished(r) =>
            /\ isStreaming
            /\ abortController = r
            /\ MessageOf(r).isStreaming

\* the failures askQuestionStream reports before it reads anything
ResponseFailures == {HttpErrorMessage, NoBodyMessage}

\* r failed on its response: its only call is onError(msg)
FailedOnResponse(r) ==
    /\ pc[r] = "returned"
    /\ \E msg \in ResponseFailures : calls[r] = <<OnError(msg)>>

\* C17: when the response is not OK or has no body, askQuestionStream calls
\* onError once with the failure message and nothing else, then and ever
\* after; the page puts the error notice in the placeholder of that request,
\* ends its streaming, leaves the streaming state and changes no other
\* message.
C17_ResponseFailure ==
    [][/\ \A r \in Requests, msg \in ResponseFailures :
             FetchFail(r, msg) =>
                 /\ calls'[r] = <<OnError(msg)>>
                 /\ pc'[r] = "returned"
                 /\ ~isStreaming'
                 /\ abortController' = NoController
                 /\ Len(messages') = Len(messages)
                 /\ \A i \in 1..Len(messages) :
                       messages'[i] =
                          IF messages[i].id = TempId(r)
                          THEN [messages[i] EXCEPT !.message = <<ErrorNotice>>,
                                                   !.isStreaming = FALSE]
                          ELSE messages[i]
       /\ \A r \in Requests :
             FailedOnResponse(r) =>
                 /\ calls'[r] = calls[r]
                 /\ MessageOf(r)' = MessageOf(r)]_vars

\* the second request got a response that was not OK: its placeholder shows
\* the error notice, the first answer is as it was completed
C17_Witness ==
    /\ nreq = 2
    /\ HasCall(1, "onComplete")
    /\ calls[2] = <<OnError(HttpErrorMessage)>>
    /\ MessageOf(2).message = <<ErrorNotice>>
    /\ ~MessageOf(2).isStreaming
    /\ ~isStreaming

\* C18: the chat history of a request holds only turns that precede its
\* question: every turn was created before the user message of the request,
\* so neither that message nor the request's empty placeholder is in it, and
\* the first request has no history.
C18_HistoryPrecedesQuestion ==
    \A r \in Requests :
        Sent(r) =>
            /\ \A i \in 1..Len(HistoryOf(r)) :
                  /\ HistoryOf(r)[i].timestamp < UserId(r)
                  /\ HistoryOf(r)[i].timestamp \notin {UserId(r), TempId(r)}
            /\ Len(HistoryOf(r)) <= 2 * (r - 1)

\* the second question was sent with a history of two turns, the first
\* question and its completed answer, and its own text in the question field
C18_Witness ==
    /\ Sent(2)
    /\ request[2][1].question = <<"q">>
    /\ Len(HistoryOf(2)) = 2
    /\ HistoryOf(2)[1] = [role |-> "user", content |-> <<"q">>, timestamp |-> UserId(1)]
    /\ HistoryOf(2)[2].role = "assistant"
    /\ HistoryOf(2)[2].timestamp = TempId(1)

\* C19: all requests of the page carry the same non-empty session id, the
\* one generated by the mount effect: once generated it is never changed, by
\* no handler, and every request sent carries it.
C19_OneSessionId ==
    [][/\ sessionId # "" => sessionId' = sessionId
       /\ \A r \in Requests :
             Sent(r)' => /\ request'[r][1].session_id = sessionId'
                         /\ request'[r][1].session_id # ""
                         /\ request'[r][1].session_id = NewSessionId]_vars

\* two requests were sent with the session id of the page, the second after
\* onComplete had been given the session id of the server
C19_Witness ==
    /\ nreq = 2
    /\ calls[1] = <<OnComplete(<<"S">>, <<"server-sid">>)>>
    /\ request[1][1].session_id = sessionId
    /\ request[2][1].session_id = sessionId
    /\ sessionId = NewSessionId

=============================================================================
